---- MODULE Spec2Model ----
(***************************************************************************)
(* Model of uWS::HttpResponse (src/src/HttpResponse.h): the per-response   *)
(* framing state machine on top of the AsyncSocket transport.              *)
(*                                                                         *)
(* The wire is a sequence of tokens.  A token is one line of framing (a    *)
(* status line, a header line, a chunk-size line, a blank line) or one     *)
(* body byte.  Consecutive non-optional Super::write calls that build one  *)
(* line ("HTTP/1.1 ", status, "\r\n") are one token: a non-optional write  *)
(* is always taken over by the transport (sent or queued), so the pieces   *)
(* of a line are never separated.                                          *)
(***************************************************************************)
EXTENDS Naturals, Sequences, FiniteSets, TLC

\* ---------------------------------------------------------------- bounds
MaxCalls == 3      \* calls made on one response
MaxLen == 2        \* longest body segment handed to write/end/tryEnd
LongLen == 26      \* the long body segment of the chunked responses

\* ------------------------------------------------------ program constants
HTTP_200_OK == "200 OK"
HTTP_TIMEOUT_S == 10
INT_MAX == 2147483647

HTTP_STATUS_CALLED == "HTTP_STATUS_CALLED"
HTTP_WRITE_CALLED == "HTTP_WRITE_CALLED"
HTTP_END_CALLED == "HTTP_END_CALLED"
HTTP_RESPONSE_PENDING == "HTTP_RESPONSE_PENDING"

VARIABLES
    state,       \* HttpResponseData::state, the set of flags that are set
    offset,      \* HttpResponseData::offset
    onAborted,   \* HttpResponseData::onAborted is non-null
    onWritable,  \* HttpResponseData::onWritable is non-null
    wire,        \* every token the transport took over, in order (sent, then queued)
    buffered,    \* AsyncSocketData::buffer: how many tokens at the end of wire are queued
    timeout,     \* the deadline in force on the socket, 0 when none
    noMark,      \* LoopData::noMark
    alive,       \* the HttpResponse has not been upgraded away
    corked,      \* LoopData::corkedSocket is this socket
    webSocket,   \* the WebSocket the response was upgraded to
    calls,       \* calls made so far
    last         \* the last call: its name and arguments, what it returned (ret, and
                 \* responded for tryEnd) and whether it armed the timeout

vars == <<state, offset, onAborted, onWritable, wire, buffered, timeout, noMark, alive, corked,
          webSocket, calls, last>>

Min(a, b) == IF a < b THEN a ELSE b

\* ------------------------------------------------------------ wire tokens
Tok(t, v) == [t |-> t, v |-> v]

Digit(d) == <<"0", "1", "2", "3", "4", "5", "6", "7", "8", "9", "a", "b", "c", "d", "e", "f">>[d + 1]

RECURSIVE toa(_, _)
toa(value, base) ==
    IF value < base THEN <<Digit(value)>>
    ELSE toa(value \div base, base) \o <<Digit(value % base)>>

\* utils::u32toaHex: lowercase hexadecimal digits, no leading zeros (the lengths
\* of the model stay far below 2^32, where the cast to unsigned int would wrap)
u32toaHex(value) == toa(value, 16)

\* utils::u64toa: decimal digits
u64toa(value) == toa(value, 10)

StatusLine(status) == <<Tok("status", <<status>>)>>
HeaderLine(key, value) == <<Tok("header", <<key>> \o value)>>
ChunkSize(n) == <<Tok("chunk", u32toaHex(n))>>
BlankLine == <<Tok("blank", <<>>)>>
Continue == <<Tok("continue", <<>>)>>
Bytes(data) == [i \in 1..Len(data) |-> Tok("byte", <<data[i]>>)]

\* -------------------------------------------------------------- transport
\* A call works on a record r: the response data, the transport, and the
\* values local to the call (room: the tokens the socket still takes during
\* this call; written, failed: the result of the last Super::write; armed:
\* whether the call armed the timeout; ret: the call's result).  Each step of
\* a call is an operator from such a record to the next one.

\* AsyncSocket::write(src, length, optional): first drains the queued
\* backpressure; if some stays queued an optional write is dropped and a
\* non-optional one is queued behind it; otherwise the socket takes what it
\* has room for, and the rest of a non-optional write is queued.
SuperWrite(r, toks, optional) ==
    LET drained == Min(r.buffered, r.room)
        b1 == r.buffered - drained
        r1 == r.room - drained
        w == Min(Len(toks), r1)
    IN  IF b1 > 0
        THEN IF optional
             THEN [r EXCEPT !.buffered = b1, !.room = r1, !.written = 0, !.failed = TRUE]
             ELSE [r EXCEPT !.wire = r.wire \o toks, !.buffered = b1 + Len(toks), !.room = r1,
                            !.written = Len(toks), !.failed = TRUE]
        ELSE IF w < Len(toks)
             THEN IF optional
                  THEN [r EXCEPT !.wire = r.wire \o SubSeq(toks, 1, w), !.buffered = 0,
                                 !.room = r1 - w, !.written = w, !.failed = TRUE]
                  ELSE [r EXCEPT !.wire = r.wire \o toks, !.buffered = Len(toks) - w,
                                 !.room = r1 - w, !.written = Len(toks), !.failed = TRUE]
             ELSE [r EXCEPT !.wire = r.wire \o toks, !.buffered = 0, !.room = r1 - w,
                            !.written = Len(toks), !.failed = FALSE]

\* AsyncSocket::timeout(seconds): replaces the deadline in force
SuperTimeout(r, seconds) ==
    [r EXCEPT !.timeout = seconds, !.armed = TRUE, !.steps = Append(@, "timeout")]

\* AsyncSocket::cork(): the socket holds the cork.  What is written while it
\* does is still handed to the transport write by write; the batching itself
\* is not modelled.
SuperCork(r) == [r EXCEPT !.corked = TRUE, !.steps = Append(@, "cork")]

\* AsyncSocket::uncork(): the cork is released and what is pending is
\* flushed; failed when some of it stays queued
SuperUncork(r) ==
    [r EXCEPT !.corked = FALSE,
              !.buffered = r.buffered - Min(r.buffered, r.room),
              !.room = r.room - Min(r.buffered, r.room),
              !.written = Min(r.buffered, r.room),
              !.failed = r.buffered > r.room,
              !.steps = Append(@, "uncork")]

\* ------------------------------------------------------------ HttpResponse
\* httpResponseData->state |= flag
setState(r, flag) == [r EXCEPT !.state = r.state \cup {flag}]

\* C9's mutant: the chunk size written in decimal
writeUnsignedDecimal(r, value) == SuperWrite(r, <<Tok("chunk", u64toa(value))>>, FALSE)

writeUnsignedHex(r, value) == SuperWrite(r, ChunkSize(value), FALSE)

\* C21's mutant: the callbacks are cleared, HTTP_RESPONSE_PENDING is left set
markDoneKeepPending(r) == [r EXCEPT !.onAborted = FALSE, !.onWritable = FALSE]

markDone(r) ==
    [r EXCEPT !.onAborted = FALSE, !.onWritable = FALSE,
              !.state = r.state \ {HTTP_RESPONSE_PENDING}]

\* C1's mutant: the status line written whether or not one was written before
writeStatusAgain(r, status) ==
    SuperWrite(setState(r, HTTP_STATUS_CALLED), StatusLine(status), FALSE)

writeStatus(r, status) ==
    IF HTTP_STATUS_CALLED \in r.state
    THEN r
    ELSE SuperWrite(setState(r, HTTP_STATUS_CALLED), StatusLine(status), FALSE)

\* writeHeader(std::string_view key, std::string_view value); value is a
\* sequence of pieces of text
writeHeader(r, key, value) ==
    SuperWrite(writeStatus(r, HTTP_200_OK), HeaderLine(key, value), FALSE)

\* writeHeader(std::string_view key, uint64_t value)
writeHeaderU64(r, key, value) ==
    SuperWrite(r, HeaderLine(key, u64toa(value)), FALSE)

writeMark(r) ==
    IF ~noMark THEN writeHeader(r, "uWebSockets", <<"18">>) ELSE r

writeContinue(r) == SuperWrite(r, Continue, FALSE)

\* internalEnd, chunked branch: the last chunk when there is data, the
\* terminating zero chunk ("\r\n0\r\n\r\n": its chunk-size line and a blank
\* line), markDone, and the timeout.  Returns true.
internalEndChunked(r, data) ==
    [SuperTimeout(
        markDone(
            SuperWrite(IF Len(data) # 0
                       THEN SuperWrite(writeUnsignedHex(r, Len(data)), Bytes(data), FALSE)
                       ELSE r,
                       ChunkSize(0) \o BlankLine, FALSE)),
        HTTP_TIMEOUT_S)
     EXCEPT !.ret = TRUE]

\* internalEnd, first call of the fixed-length branch: the mark, then
\* Content-Length and the blank line (the blank line alone for an upgrade),
\* and HTTP_END_CALLED
writeContentLength(r, totalSize, allowContentLength) ==
    setState(IF allowContentLength
             THEN SuperWrite(writeMark(r),
                             HeaderLine("Content-Length", u64toa(totalSize)) \o BlankLine, FALSE)
             ELSE SuperWrite(writeMark(r), BlankLine, FALSE),
             HTTP_END_CALLED)

\* The loop of internalEnd that passes the body to the transport in pieces
\* of at most INT_MAX, until all is written or a write fails; it leaves
\* written and failed in r.
RECURSIVE writeLoop(_, _, _, _, _)
writeLoop(r, data, written, failed, optional) ==
    IF written < Len(data) /\ ~failed
    THEN LET n == Min(Len(data) - written, INT_MAX)
             r1 == SuperWrite(r, Bytes(SubSeq(data, written + 1, written + n)), optional)
         IN  writeLoop(r1, data, written + r1.written, r1.failed, optional)
    ELSE [r EXCEPT !.written = written, !.failed = failed]

\* httpResponseData->offset += written
addOffset(r) == [r EXCEPT !.offset = r.offset + r.written]

\* bool success = written == data.length() && !failed
success(r, data) == r.written = Len(data) /\ ~r.failed

\* C8's mutant: the timeout at the end only, not on failure
endTimeoutAtTotalOnly(r, data, totalSize) ==
    IF r.offset = totalSize
    THEN SuperTimeout(r, HTTP_TIMEOUT_S)
    ELSE r

\* internalEnd, after the write loop: the timeout at the end or on failure
endTimeout(r, data, totalSize) ==
    IF ~success(r, data) \/ r.offset = totalSize
    THEN SuperTimeout(r, HTTP_TIMEOUT_S)
    ELSE r

\* C19's mutant: the response is done once the offset is at or past the total
endDoneAtOrPast(r, totalSize) ==
    IF r.offset >= totalSize THEN markDone(r) ELSE r

\* internalEnd, after the write loop: markDone at the end
endDone(r, totalSize) ==
    IF r.offset = totalSize THEN markDone(r) ELSE r

\* return success
endReturn(r, data) == [r EXCEPT !.ret = success(r, data)]

internalEndFixed(r, data, totalSize, optional, allowContentLength) ==
    endReturn(
        endDone(
            endTimeout(
                addOffset(
                    writeLoop(IF HTTP_END_CALLED \notin r.state
                              THEN writeContentLength(r, totalSize, allowContentLength)
                              ELSE r,
                              data, 0, FALSE, optional)),
                data, totalSize),
            totalSize),
        data)

\* internalEnd once the status is written and totalSize is settled
internalEndBody(r, data, totalSize, optional, allowContentLength) ==
    IF HTTP_WRITE_CALLED \in r.state
    THEN internalEndChunked(r, data)
    ELSE internalEndFixed(r, data, totalSize, optional, allowContentLength)

internalEnd(r, data, totalSize, optional, allowContentLength) ==
    internalEndBody(writeStatus(r, HTTP_200_OK), data,
                    IF totalSize = 0 THEN Len(data) ELSE totalSize,
                    optional, allowContentLength)

hasResponded(r) == HTTP_RESPONSE_PENDING \notin r.state

end(r, data) == internalEnd(r, data, Len(data), FALSE, TRUE)

\* The pair tryEnd returns is [ret, responded].
tryEndReturn(r) == [r EXCEPT !.responded = hasResponded(r)]

tryEnd(r, data, totalSize) == tryEndReturn(internalEnd(r, data, totalSize, TRUE, TRUE))

\* write, first call: the mark, Transfer-Encoding and HTTP_WRITE_CALLED
writeTransferEncoding(r) ==
    setState(writeHeader(writeMark(r), "Transfer-Encoding", <<"chunked">>), HTTP_WRITE_CALLED)

\* write, after the data was handed over: the timeout on failure; returns !failed
writeReturn(r) ==
    [(IF r.failed THEN SuperTimeout(r, HTTP_TIMEOUT_S) ELSE r) EXCEPT !.ret = ~r.failed]

\* write once the status is written
writeBody(r, data) ==
    IF Len(data) = 0
    THEN [r EXCEPT !.ret = TRUE]
    ELSE writeReturn(
             SuperWrite(
                 writeUnsignedHex(IF HTTP_WRITE_CALLED \notin r.state
                                  THEN writeTransferEncoding(r)
                                  ELSE r,
                                  Len(data)),
                 Bytes(data), FALSE))

write(r, data) == writeBody(writeStatus(r, HTTP_200_OK), data)

getWriteOffset(r) == r.offset

\* onWritable(handler): httpResponseData->onWritable = std::move(handler)
setOnWritable(r) == [r EXCEPT !.onWritable = TRUE]

\* onAborted(handler): httpResponseData->onAborted = std::move(handler)
setOnAborted(r) == [r EXCEPT !.onAborted = TRUE]

\* ------------------------------------------------------------------- cork
\* A handler given to cork is the sequence of calls it makes on the response,
\* each [op, data, canCork, handler]; a call of cork has its own handler and
\* finds canCork() as given.
RECURSIVE runCalls(_, _)
RECURSIVE cork(_, _, _)

\* handler()
runHandler(r, handler) == runCalls([r EXCEPT !.steps = Append(@, "handler")], handler)

runCall(r, call) ==
    CASE call.op = "writeHeader" -> writeHeader(r, "X-Key", <<"value">>)
      [] call.op = "write" -> write(r, call.data)
      [] call.op = "cork" -> cork(r, call.canCork, call.handler)

runCalls(r, calls_) ==
    IF Len(calls_) = 0 THEN r ELSE runCalls(runCall(r, Head(calls_)), Tail(calls_))

\* cork, after the uncork: the timeout on uncork failure
corkTimeout(r) == IF r.failed THEN SuperTimeout(r, HTTP_TIMEOUT_S) ELSE r

\* C14's mutant: the cork is taken and released whatever state it is in
corkAlways(r, canCork, handler) ==
    corkTimeout(SuperUncork(runHandler(SuperCork(r), handler)))

cork(r, canCork, handler) ==
    IF ~r.corked /\ canCork
    THEN corkTimeout(SuperUncork(runHandler(SuperCork(r), handler)))
    ELSE runHandler(r, handler)

\* ---------------------------------------------------------------- upgrade
\* Option masks are sets of bits, and & is the intersection.
PERMESSAGE_DEFLATE == "PERMESSAGE_DEFLATE"
SERVER_NO_CONTEXT_TAKEOVER == "SERVER_NO_CONTEXT_TAKEOVER"
CLIENT_NO_CONTEXT_TAKEOVER == "CLIENT_NO_CONTEXT_TAKEOVER"

DISABLED == {}
SHARED_COMPRESSOR == {"SHARED_COMPRESSOR"}
DEDICATED_COMPRESSOR == {"DEDICATED_COMPRESSOR"}
DEDICATED_COMPRESSOR_3KB == DEDICATED_COMPRESSOR \cup {"3KB"}
DEDICATED_COMPRESSOR_4KB == DEDICATED_COMPRESSOR \cup {"4KB"}
DEDICATED_COMPRESSOR_8KB == DEDICATED_COMPRESSOR \cup {"8KB"}
DEDICATED_COMPRESSOR_16KB == DEDICATED_COMPRESSOR \cup {"16KB"}
DEDICATED_COMPRESSOR_32KB == DEDICATED_COMPRESSOR \cup {"32KB"}
DEDICATED_COMPRESSOR_64KB == DEDICATED_COMPRESSOR \cup {"64KB"}
DEDICATED_COMPRESSOR_128KB == DEDICATED_COMPRESSOR \cup {"128KB"}
DEDICATED_COMPRESSOR_256KB == DEDICATED_COMPRESSOR \cup {"256KB"}

\* secWebSocketProtocol.substr(0, secWebSocketProtocol.find(',')): the text
\* before the first comma, all of it when there is none
firstProtocol(protocol) ==
    LET commas == {i \in 1..Len(protocol) : protocol[i] = ","}
    IN  IF commas = {} THEN protocol
        ELSE SubSeq(protocol, 1, (CHOOSE i \in commas : \A j \in commas : i <= j) - 1)

wantedOptions(compression) ==
    {PERMESSAGE_DEFLATE, CLIENT_NO_CONTEXT_TAKEOVER}
        \cup (IF compression = SHARED_COMPRESSOR THEN {SERVER_NO_CONTEXT_TAKEOVER} ELSE {})

maxServerWindowBits(compression) ==
    CASE compression = DEDICATED_COMPRESSOR_8KB -> 10
      [] compression = DEDICATED_COMPRESSOR_16KB -> 11
      [] compression = DEDICATED_COMPRESSOR_32KB -> 12
      [] compression = DEDICATED_COMPRESSOR_64KB -> 13
      [] compression = DEDICATED_COMPRESSOR_128KB -> 14
      [] OTHER -> 9

\* C16's mutant: the window bits are appended for the 256KB tier too
extensionsOfferAnyTier(compression, offer) ==
    IF compression \cap DEDICATED_COMPRESSOR # {}
    THEN offer \o <<"; server_max_window_bits=">> \o u64toa(maxServerWindowBits(compression))
    ELSE offer

\* The Sec-WebSocket-Extensions value: the negotiator's offer, with the
\* window bits of a dedicated compressor below 256KB appended
extensionsOffer(compression, offer) ==
    IF compression \cap DEDICATED_COMPRESSOR # {} /\ compression # DEDICATED_COMPRESSOR_256KB
    THEN offer \o <<"; server_max_window_bits=">> \o u64toa(maxServerWindowBits(compression))
    ELSE offer

\* in is what upgrade is given: protocol and extensions (the request's
\* headers, as sequences of characters and of parts), the context's
\* compression, idleTimeout and openHandler, the parser's isParsingHttp, and
\* what the ExtensionsNegotiator answers: negotiated (getNegotiatedOptions)
\* and offer (generateOffer).
negotiationRan(in) == in.compression # DISABLED /\ Len(in.extensions) # 0

\* C12's mutant: the whole list of subprotocols is echoed
writeProtocolList(r, in) ==
    IF Len(in.protocol) # 0
    THEN writeHeader(r, "Sec-WebSocket-Protocol", in.protocol)
    ELSE r

\* Select first subprotocol if present
writeProtocol(r, in) ==
    IF Len(in.protocol) # 0
    THEN writeHeader(r, "Sec-WebSocket-Protocol", firstProtocol(in.protocol))
    ELSE r

writeExtensions(r, in) ==
    IF negotiationRan(in) /\ Len(in.offer) # 0
    THEN writeHeader(r, "Sec-WebSocket-Extensions", extensionsOffer(in.compression, in.offer))
    ELSE r

upgradeHeaders(r, in) ==
    writeExtensions(
        writeProtocol(
            writeHeader(writeHeader(writeHeader(
                writeStatus(r, "101 Switching Protocols"),
                "Upgrade", <<"websocket">>), "Connection", <<"Upgrade">>),
                "Sec-WebSocket-Accept", <<"secWebSocketAccept">>),
            in),
        in)

perMessageDeflate(in) == negotiationRan(in) /\ PERMESSAGE_DEFLATE \in in.negotiated

\* C15's mutant: SERVER_NO_CONTEXT_TAKEOVER is not looked at
compressOptionsAsConfigured(in) ==
    IF negotiationRan(in)
    THEN in.compression
    ELSE in.compression \cap SHARED_COMPRESSOR

compressOptions(in) ==
    IF negotiationRan(in) /\ SERVER_NO_CONTEXT_TAKEOVER \notin in.negotiated
    THEN in.compression
    ELSE in.compression \cap SHARED_COMPRESSOR

\* The WebSocket a response is upgraded to.  opened holds, for each call of
\* the open handler, the connection as the handler finds it.
NoWebSocket ==
    [exists |-> FALSE, corked |-> FALSE, initialised |-> FALSE, perMessageDeflate |-> FALSE,
     compressOptions |-> {}, backpressure |-> <<>>, timeout |-> 0, userData |-> FALSE,
     opened |-> <<>>, upgradedWebSocket |-> FALSE]

\* What upgrade does after internalEnd works on a record u: the response as
\* it is left (res), whether its data was destroyed, the locals backpressure
\* and wasCorked, the WebSocket (ws), the options the negotiator was given
\* (wanted, empty when none ran) and the steps taken so far, in order.
transplant(r, in) ==
    [res |-> r, destroyed |-> FALSE, backpressure |-> <<>>, wasCorked |-> FALSE,
     ws |-> NoWebSocket,
     wanted |-> IF negotiationRan(in) THEN wantedOptions(in.compression) ELSE {},
     steps |-> <<>>]

\* C11's mutant: the queue is left behind in the response
leaveBackpressure(u) == [u EXCEPT !.steps = Append(@, "move")]

\* std::string backpressure(std::move(buffer)): the queue leaves the response
moveBackpressure(u) ==
    [u EXCEPT !.backpressure = SubSeq(u.res.wire, Len(u.res.wire) - u.res.buffered + 1,
                                      Len(u.res.wire)),
              !.res.buffered = 0,
              !.steps = Append(@, "move")]

\* ~HttpResponseData(): what the response still holds is freed with it
destroyData(u) ==
    [u EXCEPT !.destroyed = TRUE, !.res.buffered = 0, !.res.onAborted = FALSE,
              !.res.onWritable = FALSE, !.steps = Append(@, "destroy")]

\* bool wasCorked = Super::isCorked()
captureCork(u) == [u EXCEPT !.wasCorked = u.res.corked]

\* us_socket_context_adopt_socket: the same connection under the WebSocket
\* context; the deadline armed on it stays armed
adoptSocket(u) ==
    [u EXCEPT !.ws = [NoWebSocket EXCEPT !.exists = TRUE, !.timeout = u.res.timeout],
              !.res.corked = FALSE,
              !.steps = Append(@, "adopt")]

\* if (wasCorked) webSocket->cork()
recork(u) ==
    IF u.wasCorked
    THEN [u EXCEPT !.ws.corked = TRUE, !.steps = Append(@, "cork")]
    ELSE u

\* webSocket->init(perMessageDeflate, compressOptions, std::move(backpressure))
initWebSocket(u, in) ==
    [u EXCEPT !.ws.initialised = TRUE,
              !.ws.perMessageDeflate = perMessageDeflate(in),
              !.ws.compressOptions = compressOptions(in),
              !.ws.backpressure = u.backpressure,
              !.backpressure = <<>>,
              !.steps = Append(@, "init")]

\* if (isParsingHttp) upgradedWebSocket = webSocket
markUpgraded(u, in) ==
    IF in.isParsingHttp THEN [u EXCEPT !.ws.upgradedWebSocket = TRUE] ELSE u

\* C18's mutant: the deadline already armed on the socket is kept
keepArmedTimeout(u, in) == [u EXCEPT !.steps = Append(@, "timeout")]

\* us_socket_timeout(webSocket, idleTimeout)
armIdleTimeout(u, in) ==
    [u EXCEPT !.ws.timeout = in.idleTimeout, !.steps = Append(@, "timeout")]

\* new (webSocket->getUserData()) UserData(std::move(userData))
constructUserData(u) ==
    [u EXCEPT !.ws.userData = TRUE, !.steps = Append(@, "userData")]

\* if (openHandler) openHandler(webSocket)
emitOpen(u, in) ==
    IF in.openHandler
    THEN [u EXCEPT !.ws.opened = Append(@, [u.ws EXCEPT !.opened = <<>>]),
                   !.steps = Append(@, "open")]
    ELSE u

\* C17's mutant: the open handler runs before the idle timeout is armed and
\* the user payload constructed
adoptOpenFirst(r, in) ==
    constructUserData(
        armIdleTimeout(
            emitOpen(
                markUpgraded(
                    initWebSocket(
                        recork(adoptSocket(captureCork(destroyData(
                            moveBackpressure(transplant(r, in)))))),
                        in),
                    in),
                in),
            in))

\* upgrade after internalEnd: the backpressure is moved out of the response,
\* the socket is adopted and the WebSocket set up.
adopt(r, in) ==
    emitOpen(
        constructUserData(
            armIdleTimeout(
                markUpgraded(
                    initWebSocket(
                        recork(adoptSocket(captureCork(destroyData(
                            moveBackpressure(transplant(r, in)))))),
                        in),
                    in),
                in)),
        in)

upgrade(r, in) == adopt(internalEnd(upgradeHeaders(r, in), <<>>, 0, FALSE, FALSE), in)

\* ---------------------------------------------------------------- inputs
\* The body segment of length n is the first n letters, so that segments
\* written in another order give other bytes on the wire.
Letter(i) == <<"p", "q", "r", "s", "t", "u", "v", "w">>[((i - 1) % 8) + 1]
Segment(n) == [i \in 1..n |-> Letter(i)]
Payloads == {Segment(n) : n \in 0..MaxLen}
\* and one segment whose length takes two hexadecimal digits, one of them a letter
ChunkedPayloads == Payloads \cup {Segment(LongLen)}
\* totalSize: not given, or more than any one segment
TotalSizes == {0, MaxLen + 1}
Statuses == {"404 Not Found"}
\* More than a response of MaxCalls calls ever hands to the transport
NoLimit == (MaxCalls + 1) * (MaxLen + 8)
\* During one call the socket takes nothing or everything; during a tryEnd,
\* whose body write is optional, it may also take one token and no more
Rooms == {0, NoLimit}
TryRooms == {0, 1, NoLimit}

IdleTimeout == 120
UpgradeInputs ==
    {[protocol |-> <<>>, extensions |-> <<>>, compression |-> SHARED_COMPRESSOR,
      negotiated |-> {}, offer |-> <<>>, idleTimeout |-> IdleTimeout,
      openHandler |-> FALSE, isParsingHttp |-> FALSE],
     [protocol |-> <<"a", ",", "b">>, extensions |-> <<"permessage-deflate">>,
      compression |-> DEDICATED_COMPRESSOR_8KB,
      negotiated |-> {PERMESSAGE_DEFLATE, CLIENT_NO_CONTEXT_TAKEOVER},
      offer |-> <<"permessage-deflate", "; client_no_context_takeover">>,
      idleTimeout |-> IdleTimeout, openHandler |-> TRUE, isParsingHttp |-> TRUE]}

\* The compression policies of a WebSocket context
Policies ==
    {DISABLED, SHARED_COMPRESSOR, DEDICATED_COMPRESSOR_3KB, DEDICATED_COMPRESSOR_4KB,
     DEDICATED_COMPRESSOR_8KB, DEDICATED_COMPRESSOR_16KB, DEDICATED_COMPRESSOR_32KB,
     DEDICATED_COMPRESSOR_64KB, DEDICATED_COMPRESSOR_128KB, DEDICATED_COMPRESSOR_256KB}

\* Upgrades that differ in the subprotocols asked for, in the open handler
\* and in whether the parser is dispatching
ProtocolInputs ==
    {[protocol |-> protocol, extensions |-> <<>>, compression |-> DISABLED,
      negotiated |-> {}, offer |-> <<>>, idleTimeout |-> IdleTimeout,
      openHandler |-> openHandler, isParsingHttp |-> isParsingHttp] :
        protocol \in {<<>>, <<"a">>, <<"a", ",", "b">>},
        openHandler \in BOOLEAN, isParsingHttp \in BOOLEAN}

\* Upgrades that differ in the policy, in the extensions the client offers
\* and in what the ExtensionsNegotiator answers, any answer being possible
CompressionInputs ==
    {[protocol |-> <<>>, extensions |-> extensions, compression |-> compression,
      negotiated |-> negotiated, offer |-> offer, idleTimeout |-> IdleTimeout,
      openHandler |-> TRUE, isParsingHttp |-> FALSE] :
        extensions \in {<<>>, <<"permessage-deflate">>},
        compression \in Policies,
        negotiated \in SUBSET {PERMESSAGE_DEFLATE, SERVER_NO_CONTEXT_TAKEOVER}
                         \cup {{PERMESSAGE_DEFLATE, CLIENT_NO_CONTEXT_TAKEOVER}},
        offer \in {<<>>, <<"permessage-deflate">>}}

AllUpgradeInputs == ProtocolInputs \cup CompressionInputs

\* The handlers given to cork: one that makes no call, one that writes a
\* header, one that writes a chunk, and two that call cork again
HandlerCall(op, data, canCork, handler) ==
    [op |-> op, data |-> data, canCork |-> canCork, handler |-> handler]

Handlers ==
    {<<>>,
     <<HandlerCall("writeHeader", <<>>, FALSE, <<>>)>>,
     <<HandlerCall("write", Segment(1), FALSE, <<>>)>>,
     <<HandlerCall("cork", <<>>, TRUE,
                   <<HandlerCall("writeHeader", <<>>, FALSE, <<>>)>>)>>,
     <<HandlerCall("writeHeader", <<>>, FALSE, <<>>),
       HandlerCall("cork", <<>>, FALSE, <<>>)>>}

\* What an upgrade is given when none is made
NoInput ==
    [protocol |-> <<>>, extensions |-> <<>>, compression |-> DISABLED, negotiated |-> {},
     offer |-> <<>>, idleTimeout |-> 0, openHandler |-> FALSE, isParsingHttp |-> FALSE]

NoArgs ==
    [data |-> <<>>, totalSize |-> 0, status |-> "", in |-> NoInput, handler |-> <<>>,
     canCork |-> FALSE]

\* ---------------------------------------------------------------- actions
Cur(room) ==
    [state |-> state, offset |-> offset, onAborted |-> onAborted, onWritable |-> onWritable,
     wire |-> wire, buffered |-> buffered, timeout |-> timeout,
     corked |-> corked, steps |-> <<>>,
     room |-> room, written |-> 0, failed |-> FALSE, armed |-> FALSE,
     ret |-> TRUE, responded |-> FALSE]

Commit(result, op, args) ==
    \E r \in {result} :
    /\ state' = r.state
    /\ offset' = r.offset
    /\ onAborted' = r.onAborted
    /\ onWritable' = r.onWritable
    /\ wire' = r.wire
    /\ buffered' = r.buffered
    /\ timeout' = r.timeout
    /\ corked' = r.corked
    /\ calls' = calls + 1
    /\ last' = [op |-> op, data |-> args.data, totalSize |-> args.totalSize,
                status |-> args.status, in |-> args.in, handler |-> args.handler,
                canCork |-> args.canCork, room |-> 0, ret |-> r.ret,
                responded |-> r.responded, armed |-> r.armed, steps |-> r.steps,
                wanted |-> {}]
    /\ UNCHANGED <<noMark, alive, webSocket>>

CanCall == alive /\ calls < MaxCalls

\* The call made last: its name and arguments, what it returned, whether it
\* armed the timeout and the steps it took; for an upgrade also what the
\* socket took during the call (room) and what the negotiator was given.
NoCall ==
    [op |-> "none", data |-> <<>>, totalSize |-> 0, status |-> "", in |-> NoInput,
     handler |-> <<>>, canCork |-> FALSE, room |-> 0, ret |-> TRUE, responded |-> FALSE,
     armed |-> FALSE, steps |-> <<>>, wanted |-> {}]

\* A response as the HttpContext hands it to the request handler
InitResponse ==
    /\ state = {HTTP_RESPONSE_PENDING}
    /\ offset = 0
    /\ onAborted = FALSE
    /\ onWritable = FALSE
    /\ wire = <<>>
    /\ buffered = 0
    /\ timeout = 0
    /\ noMark \in BOOLEAN
    /\ alive = TRUE
    /\ webSocket = NoWebSocket
    /\ calls = 0
    /\ last = NoCall

Init ==
    /\ InitResponse
    /\ corked = FALSE

WriteStatus ==
    /\ CanCall
    /\ \E status \in Statuses, room \in Rooms :
         Commit(writeStatus(Cur(room), status), "writeStatus", [NoArgs EXCEPT !.status = status])

WriteHeader ==
    /\ CanCall
    /\ \E room \in Rooms :
         Commit(writeHeader(Cur(room), "X-Key", <<"value">>), "writeHeader", NoArgs)

WriteHeaderU64 ==
    /\ CanCall
    /\ \E value \in {12}, room \in Rooms :
         Commit(writeHeaderU64(Cur(room), "X-Num", value), "writeHeaderU64", NoArgs)

WriteContinue ==
    /\ CanCall
    /\ \E room \in Rooms :
         Commit(writeContinue(Cur(room)), "writeContinue", NoArgs)

Write ==
    /\ CanCall
    /\ \E data \in Payloads, room \in Rooms :
         Commit(write(Cur(room), data), "write", [NoArgs EXCEPT !.data = data])

End ==
    /\ CanCall
    /\ \E data \in Payloads, room \in Rooms :
         Commit(end(Cur(room), data), "end", [NoArgs EXCEPT !.data = data])

TryEnd ==
    /\ CanCall
    /\ \E data \in Payloads, totalSize \in TotalSizes, room \in TryRooms :
         Commit(tryEnd(Cur(room), data, totalSize), "tryEnd",
                [NoArgs EXCEPT !.data = data, !.totalSize = totalSize])

\* upgrade ends the response: the socket is adopted by the WebSocket context
\* and the deadline in force becomes the one armed on the WebSocket.
UpgradeWith(inputs) ==
    /\ CanCall
    /\ \E in \in inputs, room \in Rooms :
         \E u \in {upgrade(Cur(room), in)} :
             /\ state' = u.res.state
             /\ offset' = u.res.offset
             /\ onAborted' = u.res.onAborted
             /\ onWritable' = u.res.onWritable
             /\ wire' = u.res.wire
             /\ buffered' = u.res.buffered
             /\ timeout' = u.ws.timeout
             /\ corked' = u.res.corked
             /\ webSocket' = u.ws
             /\ alive' = ~u.destroyed
             /\ calls' = calls + 1
             /\ last' = [NoCall EXCEPT !.op = "upgrade", !.in = in, !.room = room,
                                       !.ret = u.res.ret, !.responded = hasResponded(u.res),
                                       !.armed = u.res.armed, !.steps = u.steps,
                                       !.wanted = u.wanted]
             /\ UNCHANGED noMark

Upgrade == UpgradeWith(UpgradeInputs)

\* The socket becomes writable and takes queued backpressure.
Drain ==
    /\ alive
    /\ buffered > 0
    /\ buffered' = 0
    /\ UNCHANGED <<state, offset, onAborted, onWritable, wire, timeout, noMark, alive, corked,
                   webSocket, calls, last>>

Next ==
    \/ WriteStatus
    \/ WriteHeader
    \/ WriteHeaderU64
    \/ WriteContinue
    \/ Write
    \/ End
    \/ TryEnd
    \/ Upgrade
    \/ Drain

Spec == Init /\ [][Next]_vars

\* Responses built from write, end and tryEnd alone, with a long segment too.
ChunkedWrite ==
    /\ CanCall
    /\ \E data \in ChunkedPayloads, room \in Rooms :
         Commit(write(Cur(room), data), "write", [NoArgs EXCEPT !.data = data])

ChunkedEnd ==
    /\ CanCall
    /\ \E data \in ChunkedPayloads, room \in Rooms :
         Commit(end(Cur(room), data), "end", [NoArgs EXCEPT !.data = data])

ChunkedTryEnd ==
    /\ CanCall
    /\ \E data \in ChunkedPayloads, totalSize \in TotalSizes, room \in TryRooms :
         Commit(tryEnd(Cur(room), data, totalSize), "tryEnd",
                [NoArgs EXCEPT !.data = data, !.totalSize = totalSize])

NextChunked ==
    \/ ChunkedWrite
    \/ ChunkedEnd
    \/ ChunkedTryEnd
    \/ Drain

SpecChunked == Init /\ [][NextChunked]_vars

\* A response handed to a request handler the HttpContext may have corked
\* the socket for
InitCorkable ==
    /\ InitResponse
    /\ corked \in BOOLEAN

\* Upgrades of every kind, made first or after a status or headers
UpgradeAny == UpgradeWith(AllUpgradeInputs)

NextUpgrade ==
    \/ WriteStatus
    \/ WriteHeader
    \/ UpgradeAny
    \/ Drain

SpecUpgrade == InitCorkable /\ [][NextUpgrade]_vars

\* Responses whose handlers are attached, before or after the response is
\* finished.
OnWritable ==
    /\ CanCall
    /\ Commit(setOnWritable(Cur(0)), "onWritable", NoArgs)

OnAborted ==
    /\ CanCall
    /\ Commit(setOnAborted(Cur(0)), "onAborted", NoArgs)

NextCallbacks ==
    \/ OnWritable
    \/ OnAborted
    \/ Write
    \/ End
    \/ TryEnd
    \/ Drain

SpecCallbacks == Init /\ [][NextCallbacks]_vars

\* Responses written under cork
Cork ==
    /\ CanCall
    /\ \E handler \in Handlers, canCork \in BOOLEAN, room \in Rooms :
         Commit(cork(Cur(room), canCork, handler), "cork",
                [NoArgs EXCEPT !.handler = handler, !.canCork = canCork])

NextCork ==
    \/ Cork
    \/ WriteHeader
    \/ Drain

SpecCork == InitCorkable /\ [][NextCork]_vars

\* ------------------------------------------------------------- streaming
\* A caller that streams a body of StreamTotal bytes with tryEnd: it hands
\* tryEnd what getWriteOffset says is still to send, with the same total, and
\* when the call did not take everything it registers onWritable and tries
\* again from the handler.
StreamTotal == MaxLen + 1
Body == Segment(StreamTotal)
Remainder(r) == SubSeq(Body, getWriteOffset(r) + 1, Len(Body))

\* if (!ok) res->onWritable(handler)
awaitDrain(r) == IF r.ret THEN r ELSE setOnWritable(r)

\* res->tryEnd(remainder, total), and res->onWritable(handler) if not ok
streamTryEnd(r) == awaitDrain(tryEnd(r, Remainder(r), StreamTotal))

\* During one attempt the socket takes nothing, one or two tokens, or everything
StreamRooms == {0, 1, 2, NoLimit}

\* One attempt.  Attempts refused over and over leave the response as it
\* is, so the count of calls stops at MaxCalls instead of bounding them.
StreamStep(rooms) ==
    \E room \in rooms :
      \E c \in {Cur(room)} :
        \E r \in {streamTryEnd(c)} :
            /\ state' = r.state
            /\ offset' = r.offset
            /\ onAborted' = r.onAborted
            /\ onWritable' = r.onWritable
            /\ wire' = r.wire
            /\ buffered' = r.buffered
            /\ timeout' = r.timeout
            /\ corked' = r.corked
            /\ calls' = Min(calls + 1, MaxCalls)
            /\ last' = [NoCall EXCEPT !.op = "tryEnd", !.data = Remainder(c),
                                      !.totalSize = StreamTotal, !.ret = r.ret,
                                      !.responded = r.responded, !.armed = r.armed,
                                      !.steps = r.steps]
            /\ UNCHANGED <<noMark, alive, webSocket>>

\* Before the body the caller may set the status and a header
StreamStatus == HTTP_END_CALLED \notin state /\ WriteStatus

StreamHeader == HTTP_END_CALLED \notin state /\ WriteHeader

\* The first attempt, from the request handler
StreamStart ==
    /\ alive
    /\ HTTP_END_CALLED \notin state
    /\ StreamStep(StreamRooms)

\* The drain notification runs the onWritable handler, which tries again:
\* with a socket that takes at least one token, or, woken for nothing, none
StreamWritable ==
    /\ alive
    /\ onWritable
    /\ StreamStep(StreamRooms \ {0})

StreamRefused ==
    /\ alive
    /\ onWritable
    /\ StreamStep({0})

NextStream ==
    \/ StreamStatus
    \/ StreamHeader
    \/ StreamStart
    \/ StreamWritable
    \/ StreamRefused
    \/ Drain

\* The first attempt is due until it is made, and a notification is due
\* while the handler is registered; each such step changes the response.
StartDue == alive /\ HTTP_END_CALLED \notin state

WritableDue == alive /\ onWritable

\* The caller does start the body, and the transport accepts at least one
\* byte again and again: a notification after which the socket takes
\* something always comes while the handler is registered.  This is weak
\* fairness of StreamStart and of StreamWritable, with the condition under
\* which each is enabled written out.
SpecStream ==
    /\ Init
    /\ [][NextStream]_vars
    /\ ([]<>~StartDue \/ []<><<StreamStart>>_vars)
    /\ ([]<>~WritableDue \/ []<><<StreamWritable>>_vars)


\* ------------------------------------------------------- reading the wire
LinesOf(w, t) == {i \in DOMAIN w : w[i].t = t}
HeadersOf(w, key) == {i \in DOMAIN w : w[i].t = "header" /\ w[i].v[1] = key}

StatusLines == LinesOf(wire, "status")
MarkLines == HeadersOf(wire, "uWebSockets")
ContentLengthLines == HeadersOf(wire, "Content-Length")
TransferEncodingLines == HeadersOf(wire, "Transfer-Encoding")

\* The body has begun: a chunk-size line or the blank line that ends the
\* headers is on the wire.
BodyBegun == LinesOf(wire, "chunk") \cup LinesOf(wire, "blank") # {}

\* A step that is a call on the response
IsCall == calls' = calls + 1

ResponseData == <<state, offset, onAborted, onWritable, wire, buffered, timeout>>

DigitValue(d) == CHOOSE n \in 0..15 : Digit(n) = d

RECURSIVE ParseNumber(_, _)
ParseNumber(digits, base) ==
    IF Len(digits) = 0 THEN 0
    ELSE ParseNumber(SubSeq(digits, 1, Len(digits) - 1), base) * base
         + DigitValue(digits[Len(digits)])

\* A chunk decoder.  It reads the size line of each chunk as a hexadecimal
\* number, takes that many bytes after it, and stops at the zero chunk, which
\* a blank line must follow and nothing may follow that.  It gives the bytes
\* decoded, the frames read, whether the zero chunk was read, and whether the
\* stream was well formed as far as it goes.
Malformed == [payload |-> <<>>, frames |-> 0, terminated |-> FALSE, ok |-> FALSE]

RECURSIVE DecodeFrom(_, _, _, _)
RECURSIVE DecodeChunk(_, _, _, _, _)
\* the chunk whose size line is w[i] and whose size is n
DecodeChunk(w, i, n, payload, frames) ==
    IF n = 0
    THEN IF i + 1 = Len(w) /\ w[i + 1].t = "blank"
         THEN [payload |-> payload, frames |-> frames, terminated |-> TRUE, ok |-> TRUE]
         ELSE Malformed
    ELSE IF i + n > Len(w) THEN Malformed
    ELSE IF \E j \in (i + 1)..(i + n) : w[j].t # "byte" THEN Malformed
    ELSE DecodeFrom(w, i + n + 1, payload \o [j \in 1..n |-> w[i + j].v[1]], frames + 1)

DecodeFrom(w, i, payload, frames) ==
    IF i > Len(w)
    THEN [payload |-> payload, frames |-> frames, terminated |-> FALSE, ok |-> TRUE]
    ELSE IF w[i].t # "chunk" THEN Malformed
    ELSE DecodeChunk(w, i, ParseNumber(w[i].v, 16), payload, frames)

\* The header block ends where the first chunk-size line begins.
BodyStart(w) ==
    IF LinesOf(w, "chunk") = {} THEN Len(w) + 1
    ELSE CHOOSE i \in LinesOf(w, "chunk") : \A j \in LinesOf(w, "chunk") : i <= j

HeaderBlockOk(w) ==
    \A i \in 1..(BodyStart(w) - 1) : w[i].t \in {"status", "header", "continue"}

Decode(w) == DecodeFrom(w, BodyStart(w), <<>>, 0)

\* ----------------------------------------------------------------- claims

\* C1: exactly one status line is put on the wire once a call that writes
\* the status has been made: the first such call writes it (the status given
\* to writeStatus, 101 for upgrade, 200 OK otherwise) and a later writeStatus
\* emits nothing and changes nothing.
StatusOps == {"writeStatus", "writeHeader", "write", "end", "tryEnd", "upgrade"}

FirstStatus(call) ==
    IF call.op = "writeStatus" THEN call.status
    ELSE IF call.op = "upgrade" THEN "101 Switching Protocols"
    ELSE HTTP_200_OK

C1_OneStatusLine ==
    /\ [](Cardinality(StatusLines) = IF HTTP_STATUS_CALLED \in state THEN 1 ELSE 0)
    /\ [](last.op \in StatusOps => Cardinality(StatusLines) = 1)
    /\ [][(IsCall /\ HTTP_STATUS_CALLED \notin state /\ HTTP_STATUS_CALLED \in state')
            => /\ last'.op \in StatusOps
               /\ Len(wire') > Len(wire)
               /\ wire'[Len(wire) + 1] = Tok("status", <<FirstStatus(last')>>)]_vars
    /\ [][(IsCall /\ HTTP_STATUS_CALLED \in state /\ last'.op = "writeStatus")
            => UNCHANGED ResponseData]_vars

\* A writeStatus call was made after the default status had been written.
C1_Witness ==
    /\ last.op = "writeStatus"
    /\ calls >= 2
    /\ \E i \in StatusLines : wire[i].v = <<HTTP_200_OK>>

\* C2: every header line and body byte on the wire has the status line
\* before it, and HTTP_STATUS_CALLED is set.
C2_StatusBeforeAnyByte ==
    \A i \in DOMAIN wire :
        wire[i].t \in {"header", "byte", "chunk", "blank"}
            => /\ HTTP_STATUS_CALLED \in state
               /\ \E j \in 1..(i - 1) : wire[j].t = "status"

\* C3: once the body has begun, a call of writeHeader or writeStatus puts no
\* header line and no status line on the wire.
C3_NoHeaderAfterBody ==
    [][(IsCall /\ BodyBegun /\ last'.op \in {"writeHeader", "writeHeaderU64", "writeStatus"})
         => wire' = wire]_vars

\* C4: the framing is chosen once: HTTP_WRITE_CALLED and HTTP_END_CALLED are
\* never both set, and at most one of Content-Length and Transfer-Encoding
\* is emitted.
C4_OneFraming ==
    /\ ~(HTTP_WRITE_CALLED \in state /\ HTTP_END_CALLED \in state)
    /\ Cardinality(ContentLengthLines) + Cardinality(TransferEncodingLines) <= 1

\* C5: once HTTP_RESPONSE_PENDING is cleared, a call of write, end, tryEnd,
\* writeHeader or writeStatus emits nothing, arms no timeout and leaves the
\* flags and the offset as they are.
C5_NoOpWhenResponded ==
    [][(IsCall /\ HTTP_RESPONSE_PENDING \notin state
          /\ last'.op \in {"write", "end", "tryEnd", "writeHeader", "writeHeaderU64", "writeStatus"})
         => /\ wire' = wire
            /\ state' = state
            /\ offset' = offset
            /\ ~last'.armed]_vars

\* C6: an end() with no data that follows an end() with no data emits nothing.
C6_EmptyEndIdempotent ==
    [][(IsCall /\ last.op = "end" /\ Len(last.data) = 0
          /\ last'.op = "end" /\ Len(last'.data) = 0)
         => wire' = wire]_vars

\* C7: in a fixed-length response the offset is the number of body bytes the
\* write path accepted, and it is at most the Content-Length that was sent.
C7_OffsetWithinTotal ==
    (HTTP_END_CALLED \in state /\ HTTP_WRITE_CALLED \notin state /\ ContentLengthLines # {})
        => /\ offset = Cardinality(LinesOf(wire, "byte"))
           /\ \A i \in ContentLengthLines : offset <= ParseNumber(Tail(wire[i].v), 10)

\* C8: the timeout a body-write call arms follows the outcome the call
\* reports.  write arms it exactly when it reports failure.  A finalization in
\* chunked mode, where no total is declared, always arms it.  An end or tryEnd
\* in fixed-length mode, with the total the call declares (totalSize, or the
\* length of its data when none is given): armed if it reports failure; armed
\* if it reports success and the offset is at the total; not armed if it
\* reports success and the offset is below the total.
DeclaredTotal(call) ==
    IF call.op = "tryEnd" /\ call.totalSize # 0 THEN call.totalSize ELSE Len(call.data)

ChunkedSoFar ==
    /\ HTTP_RESPONSE_PENDING \in state
    /\ HTTP_END_CALLED \notin state
    /\ HeaderBlockOk(wire)
    /\ Decode(wire).ok
    /\ ~Decode(wire).terminated

LowercaseHex(digits) ==
    /\ Len(digits) >= 1
    /\ \A i \in DOMAIN digits : \E n \in 0..15 : digits[i] = Digit(n)
    /\ (Len(digits) > 1 => digits[1] # "0")

SizeLinesOk(w) == \A i \in LinesOf(w, "chunk") : LowercaseHex(w[i].v)

\* What a call given data appends to a body that decoded to before, the body
\* decoding to after
FrameAppended(before, after, data) ==
    /\ after.ok
    /\ after.payload = before.payload \o data
    /\ after.frames = before.frames + (IF Len(data) = 0 THEN 0 ELSE 1)

C9_ChunkedRoundTrip ==
    [][(IsCall /\ ChunkedSoFar)
         => /\ last'.op = "write"
                 => /\ HeaderBlockOk(wire')
                    /\ SizeLinesOk(wire')
                    /\ FrameAppended(Decode(wire), Decode(wire'), last'.data)
                    /\ ~Decode(wire').terminated
            /\ (last'.op \in {"end", "tryEnd"} /\ HTTP_WRITE_CALLED \in state)
                 => /\ HeaderBlockOk(wire')
                    /\ SizeLinesOk(wire')
                    /\ FrameAppended(Decode(wire), Decode(wire'), last'.data)
                    /\ Decode(wire').terminated
                    /\ HTTP_RESPONSE_PENDING \notin state']_vars

\* A finalized chunked response of several segments, the long one among them.
C9_Witness ==
    /\ last.op \in {"end", "tryEnd"}
    /\ HTTP_WRITE_CALLED \in state
    /\ HTTP_END_CALLED \notin state
    /\ Decode(wire).ok
    /\ Decode(wire).terminated
    /\ Decode(wire).frames = 3
    /\ Len(Decode(wire).payload) = LongLen + MaxLen + 1

\* C10: once the headers of a response are ended, the mark is on the wire
\* exactly once, and not at all when it is suppressed.
C10_OneMark ==
    BodyBegun => Cardinality(MarkLines) = IF noMark THEN 0 ELSE 1

\* C11: at an upgrade the tokens still queued after the finalizing send (all
\* that was queued before the call and all the call emits when the socket
\* takes nothing, none when it takes everything) are given to the WebSocket's
\* init as they are and in order; they are moved out of the response before
\* its data is destroyed, and the response keeps none of them.
Queued == SubSeq(wire, Len(wire) - buffered + 1, Len(wire))

Position(steps, step) == CHOOSE i \in DOMAIN steps : steps[i] = step

Before(steps, a, b) ==
    /\ \E i \in DOMAIN steps : steps[i] = a
    /\ \E i \in DOMAIN steps : steps[i] = b
    /\ Position(steps, a) < Position(steps, b)

C11_BufferHandoff ==
    [][(IsCall /\ last'.op = "upgrade")
         => /\ SubSeq(wire', 1, Len(wire)) = wire
            /\ webSocket'.initialised
            /\ webSocket'.backpressure
                 = IF last'.room = 0
                   THEN Queued \o SubSeq(wire', Len(wire) + 1, Len(wire'))
                   ELSE <<>>
            /\ buffered' = 0
            /\ ~alive'
            /\ Before(last'.steps, "move", "destroy")
            /\ Before(last'.steps, "destroy", "init")]_vars

\* An upgrade made with headers still queued, the socket taking nothing
C11_Witness ==
    /\ last.op = "upgrade"
    /\ last.room = 0
    /\ calls >= 2
    /\ Len(webSocket.backpressure) >= 7
    /\ webSocket.backpressure[1].t = "status"
    /\ buffered = 0

\* C12: what an upgrade call emits on a live response whose body framing has
\* not begun.
Emitted == SubSeq(wire', Len(wire) + 1, Len(wire'))

\* the kind of each line, a header line being named by its key
Keys(toks) == [i \in DOMAIN toks |-> IF toks[i].t = "header" THEN toks[i].v[1] ELSE toks[i].t]

FramingNotBegun ==
    /\ alive
    /\ HTTP_RESPONSE_PENDING \in state
    /\ HTTP_WRITE_CALLED \notin state
    /\ HTTP_END_CALLED \notin state

UpgradeKeys(in) ==
    <<"Upgrade", "Connection", "Sec-WebSocket-Accept">>
        \o (IF Len(in.protocol) # 0 THEN <<"Sec-WebSocket-Protocol">> ELSE <<>>)
        \o (IF in.compression # DISABLED /\ Len(in.extensions) # 0 /\ Len(in.offer) # 0
            THEN <<"Sec-WebSocket-Extensions">> ELSE <<>>)

\* value is the text of list before its first comma
FirstEntry(value, list) ==
    /\ Len(value) <= Len(list)
    /\ value = SubSeq(list, 1, Len(value))
    /\ \A i \in DOMAIN value : value[i] # ","
    /\ (Len(value) < Len(list) => list[Len(value) + 1] = ",")

UpgradeValuesOk(toks, in) ==
    \A i \in DOMAIN toks :
        /\ toks[i].t = "status" => toks[i].v = <<"101 Switching Protocols">>
        /\ (toks[i].t = "header" /\ toks[i].v[1] = "Upgrade") => Tail(toks[i].v) = <<"websocket">>
        /\ (toks[i].t = "header" /\ toks[i].v[1] = "Connection") => Tail(toks[i].v) = <<"Upgrade">>
        /\ (toks[i].t = "header" /\ toks[i].v[1] = "Sec-WebSocket-Protocol")
              => FirstEntry(Tail(toks[i].v), in.protocol)

\* C12 as claimed: the call emits the status line 101 Switching Protocols,
\* exactly the upgrade headers in order, and one blank line.
C12_UpgradeHeaderBlock ==
    [][(IsCall /\ FramingNotBegun /\ last'.op = "upgrade")
         => /\ Keys(Emitted) = <<"status">> \o UpgradeKeys(last'.in) \o <<"blank">>
            /\ UpgradeValuesOk(Emitted, last'.in)]_vars

\* C12 as amended: the call emits the status line 101 Switching Protocols
\* unless a status line was written before, then the upgrade headers in
\* order, then the mark unless it is suppressed, then one blank line; no
\* Content-Length and no body.
C12_UpgradeHeaderBlockWithMark ==
    [][(IsCall /\ FramingNotBegun /\ last'.op = "upgrade")
         => /\ Keys(Emitted)
                 = (IF HTTP_STATUS_CALLED \in state THEN <<>> ELSE <<"status">>)
                     \o UpgradeKeys(last'.in)
                     \o (IF noMark THEN <<>> ELSE <<"uWebSockets">>)
                     \o <<"blank">>
            /\ UpgradeValuesOk(Emitted, last'.in)
            /\ HeadersOf(wire', "Content-Length") = {}
            /\ LinesOf(wire', "byte") = {}]_vars

\* An upgrade that echoes the first of two subprotocols, after another status
C12_Witness ==
    /\ last.op = "upgrade"
    /\ last.in.protocol = <<"a", ",", "b">>
    /\ ~noMark
    /\ wire[1] = Tok("status", <<"404 Not Found">>)
    /\ \E i \in HeadersOf(wire, "Sec-WebSocket-Protocol") : Tail(wire[i].v) = <<"a">>
    /\ MarkLines # {}

\* C13: whenever HTTP_RESPONSE_PENDING is clear, the onAborted slot and the
\* onWritable slot are both empty.
C13_SlotsEmptyWhenDone ==
    HTTP_RESPONSE_PENDING \notin state => (~onAborted /\ ~onWritable)

\* C14: cork(handler) runs its handler once, and so does every cork call the
\* handler makes.  If the socket was not corked and canCork() held, the call
\* corks first, uncorks after the handler, once each (the cork calls of the
\* handler find the socket corked and do neither), and arms the timeout after
\* the uncork exactly when the uncork fails, that is when something stays
\* queued.  Otherwise the call itself neither corks nor uncorks nor arms the
\* timeout, and a socket that was corked stays corked.
Count(steps, step) == Cardinality({i \in DOMAIN steps : steps[i] = step})

RECURSIVE CorkCalls(_)
CorkCalls(handler) ==
    IF Len(handler) = 0 THEN 0
    ELSE (IF Head(handler).op = "cork" THEN 1 + CorkCalls(Head(handler).handler) ELSE 0)
         + CorkCalls(Tail(handler))

\* the calls of the handler that may arm the timeout themselves
WriteCalls(handler) == Cardinality({i \in DOMAIN handler : handler[i].op = "write"})

\* the cork calls of the handler that find the socket free to cork
CorkingCalls(handler) ==
    Cardinality({i \in DOMAIN handler : handler[i].op = "cork" /\ handler[i].canCork})

Engaged(steps) ==
    /\ Len(steps) >= 3
    /\ steps[1] = "cork"
    /\ steps[2] = "handler"
    /\ Count(steps, "cork") = 1
    /\ Count(steps, "uncork") = 1
    /\ \A i \in DOMAIN steps : steps[i] = "handler" => i < Position(steps, "uncork")
    /\ Position(steps, "uncork") >= Len(steps) - 1
    /\ steps[Len(steps)] \in {"uncork", "timeout"}

C14_CorkOnce ==
    [][(IsCall /\ last'.op = "cork")
         => /\ Count(last'.steps, "handler") = 1 + CorkCalls(last'.handler)
            /\ (~corked /\ last'.canCork)
                 => /\ Engaged(last'.steps)
                    /\ (last'.steps[Len(last'.steps)] = "timeout") <=> (buffered' > 0)
                    /\ ~corked'
            /\ corked
                 => /\ last'.steps[1] = "handler"
                    /\ Count(last'.steps, "cork") = 0
                    /\ Count(last'.steps, "uncork") = 0
                    /\ Count(last'.steps, "timeout") <= WriteCalls(last'.handler)
                    /\ corked'
            /\ (~corked /\ ~last'.canCork)
                 => /\ last'.steps[1] = "handler"
                    /\ Count(last'.steps, "cork") = CorkingCalls(last'.handler)
                    /\ Count(last'.steps, "uncork") = CorkingCalls(last'.handler)
                    /\ ~corked']_vars

\* A cork whose handler calls cork again, and whose uncork fails
C14_Witness ==
    /\ last.op = "cork"
    /\ CorkCalls(last.handler) = 1
    /\ Engaged(last.steps)
    /\ Count(last.steps, "handler") = 2
    /\ last.steps[Len(last.steps)] = "timeout"
    /\ timeout = HTTP_TIMEOUT_S
    /\ buffered > 0

\* C15: the mode given to the new connection.  Negotiation runs when the
\* policy is not DISABLED and the client offered extensions.
Negotiated(in) == in.compression # DISABLED /\ Len(in.extensions) # 0

\* C15 as claimed: compression is enabled iff negotiation ran and
\* PERMESSAGE_DEFLATE was negotiated; the compressor options are the policy
\* iff negotiation ran and SERVER_NO_CONTEXT_TAKEOVER was not negotiated, and
\* the shared-compressor bit of the policy otherwise.
C15_CompressionMode ==
    [][(IsCall /\ last'.op = "upgrade")
         => /\ webSocket'.perMessageDeflate
                 <=> (Negotiated(last'.in) /\ PERMESSAGE_DEFLATE \in last'.in.negotiated)
            /\ (webSocket'.compressOptions = last'.in.compression)
                 <=> (Negotiated(last'.in)
                        /\ SERVER_NO_CONTEXT_TAKEOVER \notin last'.in.negotiated)
            /\ (webSocket'.compressOptions # last'.in.compression)
                 => webSocket'.compressOptions = last'.in.compression \cap SHARED_COMPRESSOR]_vars

\* C15 as amended: the compressor options are the policy if negotiation ran
\* and SERVER_NO_CONTEXT_TAKEOVER was not negotiated, and the shared-compressor
\* bit of the policy otherwise (which is the policy itself when the policy is
\* DISABLED or SHARED_COMPRESSOR).
C15_CompressionModeOrSharedBit ==
    [][(IsCall /\ last'.op = "upgrade")
         => /\ webSocket'.perMessageDeflate
                 <=> (Negotiated(last'.in) /\ PERMESSAGE_DEFLATE \in last'.in.negotiated)
            /\ (Negotiated(last'.in) /\ SERVER_NO_CONTEXT_TAKEOVER \notin last'.in.negotiated)
                 => webSocket'.compressOptions = last'.in.compression
            /\ ~(Negotiated(last'.in) /\ SERVER_NO_CONTEXT_TAKEOVER \notin last'.in.negotiated)
                 => /\ webSocket'.compressOptions = last'.in.compression \cap SHARED_COMPRESSOR
                    /\ webSocket'.compressOptions \cap DEDICATED_COMPRESSOR = {}]_vars

\* A dedicated policy whose negotiation forbade the server's context takeover
C15_Witness ==
    /\ last.op = "upgrade"
    /\ last.in.compression = DEDICATED_COMPRESSOR_32KB
    /\ Negotiated(last.in)
    /\ last.in.negotiated = {PERMESSAGE_DEFLATE, SERVER_NO_CONTEXT_TAKEOVER}
    /\ webSocket.perMessageDeflate
    /\ webSocket.compressOptions = {}

\* C16: Sec-WebSocket-Extensions is emitted exactly when the negotiator ran
\* and its counter-offer is not empty; its value is the counter-offer, with
\* "; server_max_window_bits=N" after it exactly when the policy is a
\* dedicated compressor below 256KB (N = 9 for 3KB and 4KB, 10 for 8KB, 11
\* for 16KB, 12 for 32KB, 13 for 64KB, 14 for 128KB); and the options the
\* negotiator is given contain CLIENT_NO_CONTEXT_TAKEOVER.
WindowBitsParameter(policy) ==
    CASE policy \in {DEDICATED_COMPRESSOR_3KB, DEDICATED_COMPRESSOR_4KB}
            -> <<"; server_max_window_bits=", "9">>
      [] policy = DEDICATED_COMPRESSOR_8KB -> <<"; server_max_window_bits=", "1", "0">>
      [] policy = DEDICATED_COMPRESSOR_16KB -> <<"; server_max_window_bits=", "1", "1">>
      [] policy = DEDICATED_COMPRESSOR_32KB -> <<"; server_max_window_bits=", "1", "2">>
      [] policy = DEDICATED_COMPRESSOR_64KB -> <<"; server_max_window_bits=", "1", "3">>
      [] policy = DEDICATED_COMPRESSOR_128KB -> <<"; server_max_window_bits=", "1", "4">>
      [] OTHER -> <<>>

ExtensionsEmitted ==
    {i \in DOMAIN wire' : /\ i > Len(wire)
                          /\ wire'[i].t = "header"
                          /\ wire'[i].v[1] = "Sec-WebSocket-Extensions"}

C16_ExtensionsOffer ==
    [][(IsCall /\ last'.op = "upgrade")
         => /\ (ExtensionsEmitted # {}) <=> (Negotiated(last'.in) /\ Len(last'.in.offer) # 0)
            /\ Cardinality(ExtensionsEmitted) <= 1
            /\ \A i \in ExtensionsEmitted :
                   Tail(wire'[i].v) = last'.in.offer \o WindowBitsParameter(last'.in.compression)
            /\ Negotiated(last'.in)
                 => /\ CLIENT_NO_CONTEXT_TAKEOVER \in last'.wanted
                    /\ PERMESSAGE_DEFLATE \in last'.wanted
                    /\ (SERVER_NO_CONTEXT_TAKEOVER \in last'.wanted)
                          <=> (last'.in.compression = SHARED_COMPRESSOR)
            /\ ~Negotiated(last'.in) => last'.wanted = {}]_vars

\* An upgrade under the 64KB policy whose counter-offer got the window bits,
\* and one under the 256KB policy whose counter-offer got none
C16_Witness ==
    /\ last.op = "upgrade"
    /\ last.in.compression = DEDICATED_COMPRESSOR_64KB
    /\ \E i \in HeadersOf(wire, "Sec-WebSocket-Extensions") :
           Tail(wire[i].v) = <<"permessage-deflate", "; server_max_window_bits=", "1", "3">>

C16_WitnessMaximumTier ==
    /\ last.op = "upgrade"
    /\ last.in.compression = DEDICATED_COMPRESSOR_256KB
    /\ \E i \in HeadersOf(wire, "Sec-WebSocket-Extensions") :
           Tail(wire[i].v) = <<"permessage-deflate">>

\* C17: every upgrade call invokes the open handler once if one is
\* registered and never otherwise, inside the call, and after these steps in
\* this order: the buffer moved out, the response data destroyed, the socket
\* adopted, the captured cork state re-applied (the new connection is corked
\* iff the old one was), the new connection initialised with the leftover
\* backpressure, the idle timeout armed, the user payload constructed.
TransplantSteps(wasCorked, openHandler) ==
    <<"move", "destroy", "adopt">>
        \o (IF wasCorked THEN <<"cork">> ELSE <<>>)
        \o <<"init", "timeout", "userData">>
        \o (IF openHandler THEN <<"open">> ELSE <<>>)

\* The connection as the open handler finds it
AtOpen == webSocket'.opened[1]

C17_OpenAfterTransplant ==
    [][(IsCall /\ last'.op = "upgrade")
         => /\ Len(webSocket'.opened) = (IF last'.in.openHandler THEN 1 ELSE 0)
            /\ last'.steps = TransplantSteps(corked, last'.in.openHandler)
            /\ ~alive'
            /\ webSocket'.corked = corked
            /\ last'.in.openHandler
                 => /\ AtOpen.exists
                    /\ AtOpen.corked = corked
                    /\ AtOpen.initialised
                    /\ AtOpen.backpressure = (IF last'.room = 0
                                              THEN Queued \o Emitted ELSE <<>>)
                    /\ AtOpen.timeout = last'.in.idleTimeout
                    /\ AtOpen.userData]_vars

\* An upgrade of a corked response with bytes still queued and an open
\* handler registered
C17_Witness ==
    /\ last.op = "upgrade"
    /\ last.in.openHandler
    /\ Len(webSocket.opened) = 1
    /\ webSocket.corked
    /\ webSocket.opened[1].backpressure # <<>>
    /\ webSocket.opened[1].userData

\* C18: for every upgrade call the deadline in force on the connection when
\* the open handler is invoked, and when the call returns, is the WebSocket
\* context's idle timeout; the 10 s HTTP timeout armed by the finalizing send
\* inside upgrade, or earlier on the response, is no longer in force.
C18_IdleTimeoutReplaces ==
    [][(IsCall /\ last'.op = "upgrade")
         => /\ webSocket'.timeout = last'.in.idleTimeout
            /\ timeout' = last'.in.idleTimeout
            /\ timeout' # HTTP_TIMEOUT_S
            /\ \A i \in DOMAIN webSocket'.opened :
                   webSocket'.opened[i].timeout = last'.in.idleTimeout]_vars

\* An upgrade whose finalizing send armed the HTTP timeout, with an open
\* handler that found the idle timeout in force
C18_Witness ==
    /\ last.op = "upgrade"
    /\ last.armed
    /\ last.in.openHandler
    /\ Len(webSocket.opened) = 1
    /\ webSocket.opened[1].timeout = IdleTimeout
    /\ timeout = IdleTimeout

\* C19: for every call tryEnd(data, totalSize): the first component of the
\* result is true iff every byte of data was accepted by the transport
\* (always true in chunked mode); the second is true iff RESPONSE_PENDING is
\* clear after the call; RESPONSE_PENDING is cleared, in fixed-length mode,
\* exactly at the call after which the offset equals the total the call
\* declares, and in chunked mode at the call, which emits the terminating
\* zero-chunk; once clear it stays clear. So a call on a pending response
\* returns [true, true] exactly when it succeeded and ended the response.
FixedLength == HTTP_WRITE_CALLED \notin state

BodyEmitted == SelectSeq(Emitted, LAMBDA tok : tok.t = "byte")

AllAccepted == BodyEmitted = Bytes(last'.data)

ZeroChunkEmitted ==
    /\ Len(Emitted) >= 2
    /\ SubSeq(Emitted, Len(Emitted) - 1, Len(Emitted)) = ChunkSize(0) \o BlankLine

C20_EndArmsTimeout ==
    [][(IsCall /\ last'.op = "end")
         => (last'.armed /\ timeout' = HTTP_TIMEOUT_S)]_vars

\* The same for calls on a response that is still pending
C20_PendingEndArmsTimeout ==
    [][(IsCall /\ last'.op = "end" /\ HTTP_RESPONSE_PENDING \in state)
         => (last'.armed /\ timeout' = HTTP_TIMEOUT_S)]_vars

\* C21: a caller that streams a fixed-length body of total T > 0 with tryEnd,
\* waiting for the drain notification after every attempt that did not take
\* everything and trying again with the remainder and the same T, over a
\* transport that accepts at least one byte again and again, eventually has
\* the response DONE: RESPONSE_PENDING cleared, the offset at T, the body on
\* the wire once and in order, and one Content-Length header of value T.
BodyOnWire == SelectSeq(wire, LAMBDA tok : tok.t = "byte")

StreamDone ==
    /\ HTTP_RESPONSE_PENDING \notin state
    /\ offset = StreamTotal
    /\ BodyOnWire = Bytes(Body)
    /\ buffered = 0
    /\ Cardinality(ContentLengthLines) = 1
    /\ \A i \in ContentLengthLines : ParseNumber(Tail(wire[i].v), 10) = StreamTotal

C21_StreamCompletes == <>[]StreamDone

\* A stream that needed more than one attempt: the last one sent what was
\* left, less than the whole body, and ended the response
C21_Witness ==
    /\ StreamDone
    /\ last.op = "tryEnd"
    /\ last.ret
    /\ last.responded
    /\ Len(last.data) < StreamTotal
    /\ last.totalSize = StreamTotal

\* Where an attempt is due it changes the response: the first writes the
\* status, one from the handler moves the backlog or the offset
C21_DueStepsProgress ==
    /\ StartDue => \A room \in StreamRooms : streamTryEnd(Cur(room)).state # state
    /\ WritableDue
         => /\ HTTP_RESPONSE_PENDING \in state
            /\ offset < StreamTotal
            /\ \A room \in StreamRooms \ {0} :
                   \/ streamTryEnd(Cur(room)).buffered < buffered
                   \/ streamTryEnd(Cur(room)).offset > offset

====
